---- MODULE Spec2Model ----
(***************************************************************************)
(* A model of bssf's sample/byte conversion core (src/src/sample.rs and    *)
(* src/src/format.rs): the numeric and sample codecs, Block, ByteBlock,    *)
(* ChannelIter, Whole and the planar-to-packed merge functions.            *)
(*                                                                         *)
(* A sample type is a record [scalar |-> name, lanes |-> n]: lanes = 1 is  *)
(* the blanket `impl Sample for T`, lanes in 2..8 is `impl Sample for      *)
(* [T; n]`.  A scalar value is an integer, a frame a sequence of lanes, a  *)
(* byte an integer in 0..255, a Vec a sequence.                            *)
(***************************************************************************)
EXTENDS Integers, Sequences, FiniteSets, TLC

VARIABLES
    ty,      \* the sample type T of the block under conversion
    host,    \* target_endian of the build: "big" or "little"
    block,   \* Block<T>: its Vec<T>
    moved,   \* whether the block has been moved out of (its Vec kept for reference)
    bb,      \* the ByteBlock in hand, or NoByteBlock
    res,     \* what the last operation returned
    slices,  \* the planar input slices handed to a build_* function
    iter,    \* the ChannelIter in hand, or NoIter
    rets,    \* what each ChannelIter::next call returned, in call order
    whole,   \* the Whole in hand, or NoWhole
    hist     \* how the Whole was built: its rate, first block and the blocks added

vars == <<ty, host, block, moved, bb, res, slices, iter, rets, whole, hist>>

-----------------------------------------------------------------------------
(* Bounds of the model.                                                    *)

\* longest Block drawn as an input of the byte conversions
MaxFrames == 2
\* longest planar slice handed to a build_* function
MaxSlice == 2
\* longest raw byte buffer handed to ByteBlock::new
MaxData == 6
\* largest byte_size tag handed to ByteBlock::new
MaxStride == 3
\* ChannelIter::next calls made beyond the block's length
MaxExtraCalls == 2
\* blocks appended to a Whole
MaxAdds == 2
\* largest channel index asked of channel_iter beyond the widest frame
MaxIndexOver == 1

\* sample_array!(2) .. sample_array!(8)
MinLanes == 2
MaxLanes == 8

-----------------------------------------------------------------------------
(* Sequence helpers standing for Vec operations.                           *)

RECURSIVE extend_all(_)
\* v.extend_from_slice(x) for each x of parts, in order, on an empty Vec
extend_all(parts) ==
    IF parts = <<>> THEN <<>>
    ELSE Head(parts) \o extend_all(Tail(parts))

Reverse(s) == [k \in 1..Len(s) |-> s[Len(s) + 1 - k]]

-----------------------------------------------------------------------------
(* Numeric codec: trait Type (sample.rs 13-49).                            *)

\* the numeric types modelled, of the ten type_for! covers: widths 1, 2 and
\* 4, signed and unsigned (TLC's integers hold no u32 or 64-bit value, and
\* the floats' bytes are those of their bit patterns)
Scalars == {"u8", "u16", "i16", "i32"}

Signed(t) == t \in {"i16", "i32"}

\* size_of::<T>()
size_of(t) ==
    CASE t = "u8" -> 1
      [] t \in {"u16", "i16"} -> 2
      [] t = "i32" -> 4

\* T::default() of a numeric type
default(t) == 0

\* to_le_bytes: byte k of the two's complement representation, least
\* significant first (\div floors, so a negative value sign-extends)
le_bytes(t, x) == [k \in 1..size_of(t) |-> (x \div (256 ^ (k - 1))) % 256]

\* to_be_bytes: most significant byte first
be_bytes(t, x) == Reverse(le_bytes(t, x))

\* to_ne_bytes: the memory representation, in the build target's order
ne_bytes(t, x, h) == IF h = "big" THEN be_bytes(t, x) ELSE le_bytes(t, x)

-----------------------------------------------------------------------------
(* Sample codec: trait Sample (sample.rs 51-135).                          *)

CHANNEL_SIZE(T) == IF T.lanes = 1 THEN 1 ELSE T.lanes

BYTE_SIZE(T) == IF T.lanes = 1 THEN size_of(T.scalar) ELSE size_of(T.scalar) * T.lanes

\* the frame's lanes written last lane first
copy_to_be_bytes_lanes_reversed(T, s) ==
    IF T.lanes = 1 THEN be_bytes(T.scalar, s)
    ELSE extend_all([k \in 1..Len(s) |-> be_bytes(T.scalar, s[Len(s) + 1 - k])])

\* Sample::copy_to_be_bytes, of a scalar and of a frame
copy_to_be_bytes(T, s) ==
    IF T.lanes = 1 THEN be_bytes(T.scalar, s)
    ELSE extend_all([k \in 1..Len(s) |-> be_bytes(T.scalar, s[k])])

\* Sample::copy_to_le_bytes, of a scalar and of a frame
copy_to_le_bytes(T, s) ==
    IF T.lanes = 1 THEN le_bytes(T.scalar, s)
    ELSE extend_all([k \in 1..Len(s) |-> le_bytes(T.scalar, s[k])])

\* The bytes a value of type T occupies in memory: a scalar in the target's
\* order, an array its lanes one after the other without padding.
memory(T, s, h) ==
    IF T.lanes = 1 THEN ne_bytes(T.scalar, s, h)
    ELSE extend_all([k \in 1..Len(s) |-> ne_bytes(T.scalar, s[k], h)])

\* What the frame's native path can do.  It clones the frame into a local,
\* builds a Vec<u8> over the local's address with Vec::from_raw_parts and
\* returns it: the Vec points into a dead stack frame, and dropping it frees
\* a stack address.  The builds can produce: the clone's bytes still intact,
\* the dead frame overwritten before it is read (every byte read as fill),
\* or an abort in the allocator when the returned Vec is dropped.
GarbageBytes == {170}

UBOutcomes ==
    {[kind |-> "intact", fill |-> 0], [kind |-> "abort", fill |-> 0]}
        \cup {[kind |-> "clobbered", fill |-> g] : g \in GarbageBytes}

\* Sample::copy_to_ne_bytes, of a scalar and of a frame: the bytes the caller
\* reads from the returned Vec; ub is the outcome of the frame path's
\* undefined behaviour (the scalar path has none)
copy_to_ne_bytes(T, s, h, ub) ==
    IF T.lanes = 1 THEN ne_bytes(T.scalar, s, h)
    ELSE IF ub.kind = "clobbered" THEN [k \in 1..BYTE_SIZE(T) |-> ub.fill]
    ELSE memory(T, s, h)

\* Whether dropping the Vec that Sample::copy_to_ne_bytes returned aborts
\* the process: the frame path's Vec owns a stack address
drop_aborts(T, ub) == T.lanes > 1 /\ ub.kind = "abort"

-----------------------------------------------------------------------------
(* Block<T> (format.rs 6-175).  An operation's outcome is a record         *)
(* [ok, val]: ok is FALSE when the process died in it.                     *)

Ok(v) == [ok |-> TRUE, val |-> v]

Died == [ok |-> FALSE, val |-> <<>>]

Block_channel_size(T) == CHANNEL_SIZE(T)

Block_byte_size(T) == BYTE_SIZE(T)

u8_size(T, b) == BYTE_SIZE(T) * Len(b)

\* Block::copy_to_ne_bytes: every element's temporary Vec is read, then dropped
Block_copy_to_ne_bytes(T, b, h, ub) ==
    IF b # <<>> /\ drop_aborts(T, ub) THEN Died
    ELSE Ok(extend_all([k \in 1..Len(b) |-> copy_to_ne_bytes(T, b[k], h, ub)]))

Block_copy_to_be_bytes(T, b) ==
    extend_all([k \in 1..Len(b) |-> copy_to_be_bytes(T, b[k])])

Block_copy_to_le_bytes(T, b) ==
    extend_all([k \in 1..Len(b) |-> copy_to_le_bytes(T, b[k])])

\* impl Into<Vec<u8>> for Block<T>: the Vec's buffer taken over as bytes
Block_into_vec_u8(T, b, h) ==
    SubSeq(extend_all([k \in 1..Len(b) |-> memory(T, b[k], h)]), 1, u8_size(T, b))

-----------------------------------------------------------------------------
(* ByteBlock (format.rs 200-324).                                          *)

ByteBlock_new(channel_size, byte_size, big_endian, data) ==
    [channel_size |-> channel_size, byte_size |-> byte_size,
     big_endian |-> big_endian, data |-> data]

\* cfg(target_endian = "big") true, cfg(target_endian = "little") false
target_big_endian(h) == h = "big"

\* impl Into<ByteBlock> for Block<T>
Block_into_ByteBlock(T, b, h) ==
    ByteBlock_new(Block_channel_size(T), Block_byte_size(T), target_big_endian(h),
                  Block_into_vec_u8(T, b, h))

\* impl From<&Block<T>> for ByteBlock
ByteBlock_from(T, o, h, ub) ==
    LET data == Block_copy_to_ne_bytes(T, o, h, ub)
    IN  IF data.ok
        THEN Ok(ByteBlock_new(Block_channel_size(T), Block_byte_size(T),
                              target_big_endian(h), data.val))
        ELSE Died

\* ByteBlock::from_block
from_block(T, big_endian, o) ==
    ByteBlock_new(Block_channel_size(T), Block_byte_size(T), big_endian,
                  IF big_endian THEN Block_copy_to_be_bytes(T, o)
                  ELSE Block_copy_to_le_bytes(T, o))

\* A byte read past the end of the buffer
OutOfBounds == "out of bounds"

\* unsafe { from_raw_parts(&data[i], n) }: n bytes from offset i on
from_raw_parts(data, i, n) ==
    [k \in 1..n |-> IF i + k <= Len(data) THEN data[i + k] ELSE OutOfBounds]

\* The decode functions handed to into_block.  "slice" returns the slice it
\* was given; "inverse" is the inverse of T's encoding in the given order.
from_le_bytes(t, o) ==
    LET w == Len(o)
        top == IF Signed(t) /\ o[w] >= 128 THEN o[w] - 256 ELSE o[w]
        low[k \in 0..(w - 1)] ==
            IF k = 0 THEN 0 ELSE low[k - 1] + o[k] * (256 ^ (k - 1))
    IN  top * (256 ^ (w - 1)) + low[w - 1]

from_be_bytes(t, o) == from_le_bytes(t, Reverse(o))

decode_scalar(t, big_endian, o) ==
    IF big_endian THEN from_be_bytes(t, o) ELSE from_le_bytes(t, o)

call(f, o) ==
    CASE f.kind = "slice" -> o
      [] f.kind = "inverse" ->
            IF f.T.lanes = 1 THEN decode_scalar(f.T.scalar, f.big_endian, o)
            ELSE [k \in 1..f.T.lanes |->
                    decode_scalar(f.T.scalar, f.big_endian,
                                  SubSeq(o, (k - 1) * size_of(f.T.scalar) + 1,
                                         k * size_of(f.T.scalar)))]

RECURSIVE into_block_while_short(_, _, _, _, _, _)
\* the loop with its bound off by one stride: while i + byte_size < b
into_block_while_short(data, byte_size, b, i, v, f) ==
    IF i + byte_size < b
    THEN into_block_while_short(data, byte_size, b, i + byte_size,
                                Append(v, call(f, from_raw_parts(data, i, byte_size))), f)
    ELSE [i |-> i, v |-> v]

RECURSIVE into_block_while(_, _, _, _, _, _)
\* while i < b { v.push(f(from_raw_parts(&data[i], byte_size))); i += byte_size }
into_block_while(data, byte_size, b, i, v, f) ==
    IF i < b
    THEN into_block_while(data, byte_size, b, i + byte_size,
                          Append(v, call(f, from_raw_parts(data, i, byte_size))), f)
    ELSE [i |-> i, v |-> v]

\* into_block without its `if a > 0` step: the trailing bytes are discarded
into_block_drops_tail(self, f) ==
    IF self.byte_size = 0 THEN Died
    ELSE LET len == Len(self.data)
             b == len - (len % self.byte_size)
         IN  Ok(into_block_while(self.data, self.byte_size, b, 0, <<>>, f).v)

\* ByteBlock::into_block; a byte_size of 0 panics in len % byte_size
into_block(self, f) ==
    IF self.byte_size = 0 THEN Died
    ELSE LET byte_size == self.byte_size
             len == Len(self.data)
             a == len % byte_size
             b == len - a
             w == into_block_while(self.data, byte_size, b, 0, <<>>, f)
         IN  Ok(IF a > 0
                THEN Append(w.v, call(f, from_raw_parts(self.data, w.i, a)))
                ELSE w.v)

-----------------------------------------------------------------------------
(* The inputs of the byte conversions.                                     *)

SampleTypes ==
    {[scalar |-> t, lanes |-> 1] : t \in Scalars}
        \cup {[scalar |-> t, lanes |-> n] : t \in Scalars, n \in MinLanes..MaxLanes}

\* two values of each scalar type whose bytes differ from one another and,
\* for the wider types, from their own reversal
SampleValues(t) ==
    CASE t = "u8" -> <<7, 255>>
      [] t = "u16" -> <<258, 65280>>
      [] t = "i16" -> <<-2, 258>>
      [] t = "i32" -> <<16909060, -2>>

\* the elements drawn for a Block<T>: both values of a scalar; the frames
\* whose lanes alternate between the two and the frame of the first alone
Elements(T) ==
    IF T.lanes = 1 THEN {SampleValues(T.scalar)[i] : i \in 1..2}
    ELSE {[k \in 1..T.lanes |-> SampleValues(T.scalar)[((a + b * (k - 1)) % 2) + 1]] :
            <<a, b>> \in {<<0, 1>>, <<1, 1>>, <<0, 0>>}}

SeqsUpTo(S, n) == UNION {[1..m -> S] : m \in 0..n}

Hosts == {"big", "little"}

NoByteBlock == [channel_size |-> 0, byte_size |-> 0, big_endian |-> FALSE,
                data |-> <<>>, from |-> "none"]

NoResult == [op |-> "none", of |-> "none", ok |-> TRUE, val |-> <<>>]

NoIter == [live |-> FALSE]

NoWhole == [live |-> FALSE]

\* an operation's outcome, with the operation's name and, for into_block,
\* where the byte block it consumed came from
Result(op, of, outcome) == [op |-> op, of |-> of, ok |-> outcome.ok, val |-> outcome.val]

\* a ByteBlock in hand, with where it came from
Held(b, from) ==
    [channel_size |-> b.channel_size, byte_size |-> b.byte_size,
     big_endian |-> b.big_endian, data |-> b.data, from |-> from]

-----------------------------------------------------------------------------
(* The byte conversions of a Block<T> on one build target.                 *)

Init ==
    /\ ty \in SampleTypes
    /\ host \in Hosts
    /\ block \in SeqsUpTo(Elements(ty), MaxFrames)
    /\ moved = FALSE
    /\ bb = NoByteBlock
    /\ res = NoResult
    /\ slices = <<>>
    /\ iter = NoIter
    /\ rets = <<>>
    /\ whole = NoWhole
    /\ hist = <<>>

\* the process is running and the block has not been moved out of
Usable == res.ok /\ ~moved

\* no ByteBlock is in hand: none was made, or the one made was consumed
NoneHeld == bb.from \in {"none", "consumed"}

CopyToNeBytes ==
    /\ Usable
    /\ \E ub \in UBOutcomes :
        res' = Result("copy_to_ne_bytes", "none", Block_copy_to_ne_bytes(ty, block, host, ub))
    /\ UNCHANGED <<ty, host, block, moved, bb, slices, iter, rets, whole, hist>>

CopyToBeBytes ==
    /\ Usable
    /\ res' = Result("copy_to_be_bytes", "none", Ok(Block_copy_to_be_bytes(ty, block)))
    /\ UNCHANGED <<ty, host, block, moved, bb, slices, iter, rets, whole, hist>>

CopyToLeBytes ==
    /\ Usable
    /\ res' = Result("copy_to_le_bytes", "none", Ok(Block_copy_to_le_bytes(ty, block)))
    /\ UNCHANGED <<ty, host, block, moved, bb, slices, iter, rets, whole, hist>>

FromBlock ==
    /\ Usable
    /\ NoneHeld
    /\ \E big_endian \in BOOLEAN :
        bb' = Held(from_block(ty, big_endian, block), "from_block")
    /\ res' = Result("from_block", "none", Ok(block))
    /\ UNCHANGED <<ty, host, block, moved, slices, iter, rets, whole, hist>>

\* ByteBlock::from(&block)
FromRef ==
    /\ Usable
    /\ NoneHeld
    /\ \E ub \in UBOutcomes :
        LET o == ByteBlock_from(ty, block, host, ub)
        IN  /\ res' = Result("from_ref", "none", IF o.ok THEN Ok(block) ELSE Died)
            /\ bb' = IF o.ok THEN Held(o.val, "from_ref") ELSE NoByteBlock
    /\ UNCHANGED <<ty, host, block, moved, slices, iter, rets, whole, hist>>

\* let b: ByteBlock = block.into(): the block is consumed
IntoByteBlock ==
    /\ Usable
    /\ NoneHeld
    /\ bb' = Held(Block_into_ByteBlock(ty, block, host), "into")
    /\ res' = Result("into", "none", Ok(block))
    /\ moved' = TRUE
    /\ UNCHANGED <<ty, host, block, slices, iter, rets, whole, hist>>

\* bb.into_block(decode), decode the inverse of T's encoding in bb's order:
\* the byte block is consumed
IntoBlock ==
    /\ res.ok
    /\ bb.from \in {"from_block", "from_ref", "into"}
    /\ res' = Result("into_block", bb.from,
                     into_block(bb, [kind |-> "inverse", T |-> ty,
                                     big_endian |-> bb.big_endian]))
    /\ bb' = [bb EXCEPT !.from = "consumed"]
    /\ UNCHANGED <<ty, host, block, moved, slices, iter, rets, whole, hist>>

Next ==
    \/ CopyToNeBytes
    \/ CopyToBeBytes
    \/ CopyToLeBytes
    \/ FromBlock
    \/ FromRef
    \/ IntoByteBlock
    \/ IntoBlock

Spec == Init /\ [][Next]_vars

-----------------------------------------------------------------------------
(* into_block on a ByteBlock built from raw parts: any data length under   *)
(* any byte_size tag.                                                      *)

InitStride ==
    /\ ty = [scalar |-> "u8", lanes |-> 1]
    /\ host = "little"
    /\ block = <<>>
    /\ moved = FALSE
    /\ bb = NoByteBlock
    /\ res = NoResult
    /\ slices = <<>>
    /\ iter = NoIter
    /\ rets = <<>>
    /\ whole = NoWhole
    /\ hist = <<>>

\* the raw buffers: every byte differs from its neighbours
RawData(len, seed) == [i \in 1..len |-> (seed + i) % 256]

\* ByteBlock::new(channel_size, byte_size, big_endian, data): nothing is
\* validated
ByteBlockNew ==
    /\ res.ok
    /\ \E channel_size \in 1..2, byte_size \in 0..MaxStride, big_endian \in BOOLEAN,
          len \in 0..MaxData, seed \in {0, 250} :
        bb' = Held(ByteBlock_new(channel_size, byte_size, big_endian,
                                 RawData(len, seed)), "new")
    /\ res' = Result("new", "none", Ok(<<>>))
    /\ UNCHANGED <<ty, host, block, moved, slices, iter, rets, whole, hist>>

\* bb.into_block(f) with f returning the slice it was called on, so that
\* the block lists the calls
IntoBlockSlices ==
    /\ res.ok
    /\ bb.from = "new"
    /\ res' = Result("into_block", bb.from, into_block(bb, [kind |-> "slice"]))
    /\ bb' = [bb EXCEPT !.from = "consumed"]
    /\ UNCHANGED <<ty, host, block, moved, slices, iter, rets, whole, hist>>

NextStride ==
    \/ ByteBlockNew
    \/ IntoBlockSlices

SpecStride == InitStride /\ [][NextStride]_vars

\* C4: with data length L and byte_size B >= 1, into_block calls the decoder
\* on data[k*B .. (k+1)*B) for k = 0..floor(L/B)-1 in that order and then,
\* if L mod B > 0, once on the trailing data[floor(L/B)*B .. L); the block
\* has ceil(L/B) elements in call order and the calls read every byte of
\* data once, and none outside it.
Strides ==
    (res.op = "into_block" /\ res.of = "new" /\ bb.byte_size >= 1)
        => LET L == Len(bb.data)
               B == bb.byte_size
               full == L \div B
           IN  /\ res.ok
               /\ Len(res.val) = full + (IF L % B > 0 THEN 1 ELSE 0)
               /\ \A k \in 1..full :
                    res.val[k] = [j \in 1..B |-> bb.data[(k - 1) * B + j]]
               /\ L % B > 0 =>
                    res.val[full + 1] = [j \in 1..(L % B) |-> bb.data[full * B + j]]
               /\ extend_all(res.val) = bb.data

StridesWitness ==
    /\ res.op = "into_block" /\ res.of = "new" /\ res.ok
    /\ bb.byte_size = 3 /\ Len(bb.data) = 5
    /\ Len(res.val) = 2 /\ Len(res.val[1]) = 3 /\ Len(res.val[2]) = 2

-----------------------------------------------------------------------------
(* Channel merge (format.rs 397-653).  A macro's arguments a, o... are the *)
(* sequence sl of planar slices; a slice's element i is sl[k][i + 1].      *)

RECURSIVE min_len(_, _, _)
\* $( if min > o_len { min = o_len } )* over the slices after the first k
min_len(sl, k, min) ==
    IF k >= Len(sl) THEN min
    ELSE min_len(sl, k + 1, IF min > Len(sl[k + 1]) THEN Len(sl[k + 1]) ELSE min)

RECURSIVE max_len(_, _, _)
\* $( if max < o_len { max = o_len } )* over the slices after the first k
max_len(sl, k, max) ==
    IF k >= Len(sl) THEN max
    ELSE max_len(sl, k + 1, IF max < Len(sl[k + 1]) THEN Len(sl[k + 1]) ELSE max)

\* the merge with its loop one frame short: for i in 0..min - 1
min_merge_short(sl) ==
    LET min == min_len(sl, 1, Len(sl[1]))
    IN  [i \in 1..(min - 1) |-> [k \in 1..Len(sl) |-> sl[k][i]]]

\* macro min_merge
min_merge(sl) ==
    LET min == min_len(sl, 1, Len(sl[1]))
    IN  [i \in 1..min |-> [k \in 1..Len(sl) |-> sl[k][i]]]

\* the merge padding every lane but the longest from the shortest's end on
max_merge_pads_early(sl) ==
    LET min == min_len(sl, 1, Len(sl[1]))
        max == max_len(sl, 1, Len(sl[1]))
    IN  [i \in 1..min |-> [k \in 1..Len(sl) |-> sl[k][i]]]
            \o [j \in 1..(max - min) |->
                  [k \in 1..Len(sl) |->
                     IF Len(sl[k]) = max THEN sl[k][min + j] ELSE default("T")]]

\* macro max_merge: the frames below min, then those from min to max with
\* T::default() in the lanes that have run out
max_merge(sl) ==
    LET min == min_len(sl, 1, Len(sl[1]))
        max == max_len(sl, 1, Len(sl[1]))
    IN  [i \in 1..min |-> [k \in 1..Len(sl) |-> sl[k][i]]]
            \o [j \in 1..(max - min) |->
                  [k \in 1..Len(sl) |->
                     IF min + j <= Len(sl[k]) THEN sl[k][min + j] ELSE default("T")]]

build_2(a, b) == min_merge(<<a, b>>)

build_2_padding(a, b) == max_merge(<<a, b>>)

build_stereo(a, b) == build_2(a, b)

build_3(a, b, c) == min_merge(<<a, b, c>>)

build_3_padding(a, b, c) == max_merge(<<a, b, c>>)

build_surround(a, b, c) == build_3(a, b, c)

build_4(a, b, c, d) == min_merge(<<a, b, c, d>>)

build_4_padding(a, b, c, d) == max_merge(<<a, b, c, d>>)

build_5(a, b, c, d, e) == min_merge(<<a, b, c, d, e>>)

build_5_padding(a, b, c, d, e) == max_merge(<<a, b, c, d, e>>)

build_6(a, b, c, d, e, f) == min_merge(<<a, b, c, d, e, f>>)

build_6_padding(a, b, c, d, e, f) == max_merge(<<a, b, c, d, e, f>>)

build_hexagonal(a, b, c, d, e, f) == build_6(a, b, c, d, e, f)

build_7(a, b, c, d, e, f, g) == min_merge(<<a, b, c, d, e, f, g>>)

build_7_padding(a, b, c, d, e, f, g) == max_merge(<<a, b, c, d, e, f, g>>)

build_8(a, b, c, d, e, f, g, h) == min_merge(<<a, b, c, d, e, f, g, h>>)

build_8_padding(a, b, c, d, e, f, g, h) == max_merge(<<a, b, c, d, e, f, g, h>>)

build_octagonal(a, b, c, d, e, f, g, h) == build_8(a, b, c, d, e, f, g, h)

build_cube(a, b, c, d, e, f, g, h) == build_8(a, b, c, d, e, f, g, h)

\* the build_N, build_N_padding and named function of a given arity
call_build(sl) ==
    CASE Len(sl) = 2 -> build_2(sl[1], sl[2])
      [] Len(sl) = 3 -> build_3(sl[1], sl[2], sl[3])
      [] Len(sl) = 4 -> build_4(sl[1], sl[2], sl[3], sl[4])
      [] Len(sl) = 5 -> build_5(sl[1], sl[2], sl[3], sl[4], sl[5])
      [] Len(sl) = 6 -> build_6(sl[1], sl[2], sl[3], sl[4], sl[5], sl[6])
      [] Len(sl) = 7 -> build_7(sl[1], sl[2], sl[3], sl[4], sl[5], sl[6], sl[7])
      [] Len(sl) = 8 -> build_8(sl[1], sl[2], sl[3], sl[4], sl[5], sl[6], sl[7], sl[8])

call_build_padding(sl) ==
    CASE Len(sl) = 2 -> build_2_padding(sl[1], sl[2])
      [] Len(sl) = 3 -> build_3_padding(sl[1], sl[2], sl[3])
      [] Len(sl) = 4 -> build_4_padding(sl[1], sl[2], sl[3], sl[4])
      [] Len(sl) = 5 -> build_5_padding(sl[1], sl[2], sl[3], sl[4], sl[5])
      [] Len(sl) = 6 -> build_6_padding(sl[1], sl[2], sl[3], sl[4], sl[5], sl[6])
      [] Len(sl) = 7 -> build_7_padding(sl[1], sl[2], sl[3], sl[4], sl[5], sl[6], sl[7])
      [] Len(sl) = 8 -> build_8_padding(sl[1], sl[2], sl[3], sl[4], sl[5], sl[6], sl[7], sl[8])

Aliases ==
    {<<2, "build_stereo">>, <<3, "build_surround">>, <<6, "build_hexagonal">>,
     <<8, "build_octagonal">>, <<8, "build_cube">>}

call_alias(name, sl) ==
    CASE name = "build_stereo" -> build_stereo(sl[1], sl[2])
      [] name = "build_surround" -> build_surround(sl[1], sl[2], sl[3])
      [] name = "build_hexagonal" ->
            build_hexagonal(sl[1], sl[2], sl[3], sl[4], sl[5], sl[6])
      [] name = "build_octagonal" ->
            build_octagonal(sl[1], sl[2], sl[3], sl[4], sl[5], sl[6], sl[7], sl[8])
      [] name = "build_cube" ->
            build_cube(sl[1], sl[2], sl[3], sl[4], sl[5], sl[6], sl[7], sl[8])

\* the planar inputs: slice k of length lens[k] holds 16 * k + i + 1 at index
\* i, so every value names its slice and its index and none is the default
Planar(lens) == [k \in 1..Len(lens) |-> [i \in 1..lens[k] |-> 16 * k + i]]

InitMerge ==
    /\ ty = [scalar |-> "u8", lanes |-> 1]
    /\ host = "little"
    /\ block = <<>>
    /\ moved = FALSE
    /\ bb = NoByteBlock
    /\ res = NoResult
    /\ \/ \E n \in MinLanes..MaxLanes :
            \E lens \in [1..n -> 0..MaxSlice] : slices = Planar(lens)
       \/ slices = <<<<1, 2, 3>>, <<4, 5>>>>
    /\ iter = NoIter
    /\ rets = <<>>
    /\ whole = NoWhole
    /\ hist = <<>>

Build ==
    /\ res.op = "none"
    /\ res' = Result("build", "none", Ok(call_build(slices)))
    /\ UNCHANGED <<ty, host, block, moved, bb, slices, iter, rets, whole, hist>>

BuildPadding ==
    /\ res.op = "none"
    /\ res' = Result("build_padding", "none", Ok(call_build_padding(slices)))
    /\ UNCHANGED <<ty, host, block, moved, bb, slices, iter, rets, whole, hist>>

BuildAlias ==
    /\ res.op = "none"
    /\ \E al \in Aliases :
        /\ al[1] = Len(slices)
        /\ res' = Result("build_alias", al[2], Ok(call_alias(al[2], slices)))
    /\ UNCHANGED <<ty, host, block, moved, bb, slices, iter, rets, whole, hist>>

NextMerge ==
    \/ Build
    \/ BuildPadding
    \/ BuildAlias

SpecMerge == InitMerge /\ [][NextMerge]_vars

SliceLens == {Len(slices[k]) : k \in 1..Len(slices)}

Shortest == CHOOSE m \in SliceLens : \A l \in SliceLens : m <= l

Longest == CHOOSE m \in SliceLens : \A l \in SliceLens : m >= l

\* C2: build_N and the named functions of its arity return as many frames as
\* the shortest input has elements, frame i being [s_0[i], ..., s_{N-1}[i]];
\* what lies at or beyond the shortest input's length is dropped.
TruncatingMerge ==
    res.op \in {"build", "build_alias"}
        => /\ Len(res.val) = Shortest
           /\ \A i \in 1..Shortest :
                /\ Len(res.val[i]) = Len(slices)
                /\ \A k \in 1..Len(slices) : res.val[i][k] = slices[k][i]

\* build_stereo([1,2,3], [4,5]) = [[1,4],[2,5]]
TruncatingMergeWitness ==
    /\ res.op = "build_alias" /\ res.of = "build_stereo"
    /\ slices = <<<<1, 2, 3>>, <<4, 5>>>>
    /\ res.val = <<<<1, 4>>, <<2, 5>>>>

\* C3: build_N_padding returns as many frames as the longest input has
\* elements; lane k of frame i is s_k[i] where s_k has an element i and the
\* scalar type's default value where it has not.
PaddingMerge ==
    res.op = "build_padding"
        => /\ Len(res.val) = Longest
           /\ \A i \in 1..Longest :
                /\ Len(res.val[i]) = Len(slices)
                /\ \A k \in 1..Len(slices) :
                     res.val[i][k] = IF i <= Len(slices[k]) THEN slices[k][i] ELSE 0

PaddingMergeWitness ==
    /\ res.op = "build_padding"
    /\ Len(slices) = 3
    /\ Len(slices[1]) = 2 /\ Len(slices[2]) = 1 /\ Len(slices[3]) = 0
    /\ res.val = <<<<slices[1][1], slices[2][1], 0>>, <<slices[1][2], 0, 0>>>>

-----------------------------------------------------------------------------
(* ChannelIter (format.rs 177-198).  Option<U> is None or Some(v).         *)

None == [some |-> FALSE, v |-> 0]

Some(v) == [some |-> TRUE, v |-> v]

\* the projections f(&T, usize) -> U handed to next: the lane at the index,
\* and that lane plus the index
Projections == {"lane", "lane_plus_index"}

project(f, T, o, n) ==
    LET lane == IF T.lanes = 1 THEN o ELSE o[n + 1]
    IN  IF f = "lane" THEN lane ELSE lane + n

\* ChannelIter::new(i, n) with the range check off by one: the last channel
\* is refused
ChannelIter_new_off_by_one(T, i, n) ==
    [live |-> TRUE, T |-> T, it |-> i, valid |-> n + 1 < CHANNEL_SIZE(T), n |-> n]

\* ChannelIter::new(i, n): the slice iterator (what is left of the slice),
\* whether n is a channel of T, and n
ChannelIter_new(T, i, n) ==
    [live |-> TRUE, T |-> T, it |-> i, valid |-> n < CHANNEL_SIZE(T), n |-> n]

\* Block::channel_iter
channel_iter(T, b, n) == ChannelIter_new(T, b, n)

\* slice::Iter::next: the iterator after the call, and what it returned
Iter_next(it) ==
    IF it = <<>> THEN [it |-> it, ret |-> None]
    ELSE [it |-> Tail(it), ret |-> Some(Head(it))]

\* ChannelIter::next(f): the iterator after the call, and what it returned
ChannelIter_next(self, f) ==
    IF self.valid
    THEN LET r == Iter_next(self.it)
         IN  [self |-> [self EXCEPT !.it = r.it],
              ret |-> IF r.ret.some
                      THEN Some(project(f, self.T, r.ret.v, self.n))
                      ELSE None]
    ELSE [self |-> self, ret |-> None]

InitIter ==
    /\ ty \in {[scalar |-> "i16", lanes |-> n] : n \in 1..MaxLanes}
    /\ host = "little"
    /\ block \in SeqsUpTo(Elements(ty), MaxFrames)
    /\ moved = FALSE
    /\ bb = NoByteBlock
    /\ res = NoResult
    /\ slices = <<>>
    /\ iter = NoIter
    /\ rets = <<>>
    /\ whole = NoWhole
    /\ hist = <<>>

\* let mut it = block.channel_iter(n)
ChannelIterCreate ==
    /\ ~iter.live
    /\ \E n \in 0..(MaxLanes + MaxIndexOver) : iter' = channel_iter(ty, block, n)
    /\ UNCHANGED <<ty, host, block, moved, bb, res, slices, rets, whole, hist>>

\* it.next(f): rets records f and what the call returned
ChannelIterNext ==
    /\ iter.live
    /\ Len(rets) < Len(block) + MaxExtraCalls
    /\ \E f \in Projections :
        LET r == ChannelIter_next(iter, f)
        IN  /\ iter' = r.self
            /\ rets' = Append(rets, [f |-> f, ret |-> r.ret])
    /\ UNCHANGED <<ty, host, block, moved, bb, res, slices, whole, hist>>

NextIter ==
    \/ ChannelIterCreate
    \/ ChannelIterNext

SpecIter == InitIter /\ [][NextIter]_vars

\* C8: on channel_iter(n) of a block of L elements, if n is not below T's
\* channel count every next call returns None; otherwise call i of the first
\* L returns Some(f(element i, n)), in block order, and every later call
\* returns None.
ChannelIteration ==
    iter.live =>
        \A c \in 1..Len(rets) :
            IF iter.n < ty.lanes /\ c <= Len(block)
            THEN /\ rets[c].ret.some
                 /\ rets[c].ret.v
                      = (IF ty.lanes = 1 THEN block[c] ELSE block[c][iter.n + 1])
                        + (IF rets[c].f = "lane" THEN 0 ELSE iter.n)
            ELSE ~rets[c].ret.some

\* a valid channel: the block walked to its end and one call more
ChannelIterationWitness ==
    /\ iter.live /\ ty.lanes = 3 /\ iter.n = 2
    /\ Len(block) = 2 /\ Len(rets) = 3
    /\ rets[1].ret.some /\ rets[2].ret.some /\ ~rets[3].ret.some

-----------------------------------------------------------------------------
(* Whole (format.rs 326-395).                                              *)

\* Vec::append(&mut self, other): other's elements moved to the end of self
Vec_append(self, other) == self \o other

Whole_from_block(sample_rate, data) ==
    [live |-> TRUE, sample_rate |-> sample_rate, data |-> data]

\* Block::new(n): an empty Vec with capacity n
Block_new(n) == <<>>

Whole_new(sample_rate, n) == Whole_from_block(sample_rate, Block_new(n))

\* add with the two blocks the other way round
Whole_add_front(self, o) == [self EXCEPT !.data = Vec_append(o, self.data)]

\* Whole::add
Whole_add(self, o) == [self EXCEPT !.data = Vec_append(self.data, o)]

\* the u32 sample rates and the blocks drawn, with those of the example
SampleRates == {44100, 0}

WholeBlocks == SeqsUpTo(1..2, MaxFrames) \cup {<<1, 2, 3>>, <<4, 5>>}

InitWhole ==
    /\ ty = [scalar |-> "i32", lanes |-> 1]
    /\ host = "little"
    /\ block = <<>>
    /\ moved = FALSE
    /\ bb = NoByteBlock
    /\ res = NoResult
    /\ slices = <<>>
    /\ iter = NoIter
    /\ rets = <<>>
    /\ whole = NoWhole
    /\ hist = <<>>

WholeNew ==
    /\ ~whole.live
    /\ \E sample_rate \in SampleRates, n \in {0, 4} :
        /\ whole' = Whole_new(sample_rate, n)
        /\ hist' = <<[rate |-> sample_rate, block |-> <<>>]>>
    /\ UNCHANGED <<ty, host, block, moved, bb, res, slices, iter, rets>>

WholeFromBlock ==
    /\ ~whole.live
    /\ \E sample_rate \in SampleRates, data \in WholeBlocks :
        /\ whole' = Whole_from_block(sample_rate, data)
        /\ hist' = <<[rate |-> sample_rate, block |-> data]>>
    /\ UNCHANGED <<ty, host, block, moved, bb, res, slices, iter, rets>>

\* whole.add(o): hist records o
WholeAdd ==
    /\ whole.live
    /\ Len(hist) <= MaxAdds
    /\ \E o \in WholeBlocks :
        /\ whole' = Whole_add(whole, o)
        /\ hist' = Append(hist, [rate |-> hist[1].rate, block |-> o])
    /\ UNCHANGED <<ty, host, block, moved, bb, res, slices, iter, rets>>

NextWhole ==
    \/ WholeNew
    \/ WholeFromBlock
    \/ WholeAdd

SpecWhole == InitWhole /\ [][NextWhole]_vars

\* C9: after Whole::new(r, c) or Whole::from_block(r, b0) and any adds
\* b1..bk, the block is b0 ++ b1 ++ ... ++ bk in call order and the sample
\* rate is still r.
WholeAppend ==
    whole.live =>
        /\ whole.sample_rate = hist[1].rate
        /\ Len(whole.data) = Len(extend_all([k \in 1..Len(hist) |-> hist[k].block]))
        /\ \A k \in 1..Len(hist) :
             \A i \in 1..Len(hist[k].block) :
                whole.data[Len(extend_all([j \in 1..(k - 1) |-> hist[j].block])) + i]
                    = hist[k].block[i]

\* the example: new(44100, 0), add([1,2,3]), add([4,5])
WholeAppendWitness ==
    /\ whole.live
    /\ hist = <<[rate |-> 44100, block |-> <<>>], [rate |-> 44100, block |-> <<1, 2, 3>>],
                [rate |-> 44100, block |-> <<4, 5>>]>>
    /\ whole.data = <<1, 2, 3, 4, 5>>
    /\ whole.sample_rate = 44100

-----------------------------------------------------------------------------
(* Claims about the byte conversions, checked under Spec.                  *)

\* lane k of an element of type T
Lane(T, s, k) == IF T.lanes = 1 THEN s ELSE s[k]

\* byte j of the w-byte two's complement representation of x, most
\* significant byte first when big_endian, least significant first otherwise
ByteOf(x, w, j, big_endian) ==
    IF big_endian THEN (x \div (256 ^ (w - j))) % 256
    ELSE (x \div (256 ^ (j - 1))) % 256

\* the byte at (frame i, lane k, byte j), frames, lanes and bytes from 1
LayoutHolds(bytes, big_endian) ==
    LET n == ty.lanes
        w == size_of(ty.scalar)
    IN  /\ Len(bytes) = Len(block) * n * w
        /\ \A i \in 1..Len(block), k \in 1..n, j \in 1..w :
             bytes[(i - 1) * n * w + (k - 1) * w + j]
                = ByteOf(Lane(ty, block[i], k), w, j, big_endian)

\* C1: a block serialized by ByteBlock::from_block in either byte order and
\* deserialized by into_block with the inverse decoder of that order is the
\* block again: same length, same elements in the same order.
RoundTrip ==
    (res.op = "into_block" /\ res.of = "from_block") => (res.ok /\ res.val = block)

RoundTripWitness ==
    /\ res.op = "into_block" /\ res.of = "from_block" /\ res.ok
    /\ ty.lanes = 3 /\ Len(block) = 2 /\ block[1] # block[2]
    /\ block[1][1] # block[1][2]
    /\ res.val = block

\* C5: byte_size() is channel_size() times the scalar's storage width, and
\* each of copy_to_ne_bytes, copy_to_be_bytes and copy_to_le_bytes returns
\* (number of frames) x byte_size() bytes.
ByteWidth ==
    /\ Block_byte_size(ty) = Block_channel_size(ty) * size_of(ty.scalar)
    /\ res.op \in {"copy_to_ne_bytes", "copy_to_be_bytes", "copy_to_le_bytes"}
        => (res.ok /\ Len(res.val) = Len(block) * Block_byte_size(ty))

\* C6: in big-endian and in little-endian mode the block's bytes are its
\* frames in frame order, each frame its lanes in lane order 0..N-1, each
\* lane its W bytes in the requested order: N x W bytes a frame.
ByteLayout ==
    /\ res.op = "copy_to_be_bytes" => LayoutHolds(res.val, TRUE)
    /\ res.op = "copy_to_le_bytes" => LayoutHolds(res.val, FALSE)
    /\ bb.from = "from_block" => LayoutHolds(bb.data, bb.big_endian)

ByteLayoutWitness ==
    /\ res.op = "copy_to_be_bytes"
    /\ ty.lanes = 3 /\ size_of(ty.scalar) = 2 /\ Len(block) = 2
    /\ block[1] # block[2] /\ block[1][1] # block[1][2]
    /\ Len(res.val) = 12

\* C7: copy_to_ne_bytes() equals copy_to_le_bytes() on a little-endian host
\* and copy_to_be_bytes() on a big-endian host, for scalars and for frames.
EndianSymmetry ==
    res.op = "copy_to_ne_bytes"
        => /\ res.ok
           /\ res.val = IF host = "little" THEN Block_copy_to_le_bytes(ty, block)
                        ELSE Block_copy_to_be_bytes(ty, block)

\* C10: a Block converted into a ByteBlock, by value or from a reference,
\* gives the same ByteBlock: the block's native-order bytes, T's channel
\* count and byte width, and the host's endianness as the flag.
SameByteBlock ==
    res.op \in {"into", "from_ref"}
        => /\ res.ok
           /\ bb.channel_size = CHANNEL_SIZE(ty)
           /\ bb.byte_size = BYTE_SIZE(ty)
           /\ bb.big_endian = (host = "big")
           /\ bb.data = IF host = "little" THEN Block_copy_to_le_bytes(ty, block)
                        ELSE Block_copy_to_be_bytes(ty, block)

====
